---------------------------- MODULE Spec2Model ----------------------------
(***************************************************************************)
(* A model of lihkg-parser (src/src/main.rs): the lexical classifier, the  *)
(* paragraph validator, the script-ratio filter, the markup extractor,     *)
(* the record processor and the streaming batch-dispatch archive pipeline. *)
(*                                                                         *)
(* Strings are sequences of Unicode scalar values (code points).  Three    *)
(* specifications share the module:                                        *)
(*   Spec      main() and its worker threads (lines 151-198)               *)
(*   SpecPara  the paragraph loop of process_line (lines 129-142)          *)
(*   SpecHtml  convert_html_to_text on fragment trees (lines 103-118)      *)
(***************************************************************************)
EXTENDS Integers, Sequences, FiniteSets, TLC

VARIABLES
    \* ---- Spec: main() and the batch workers
    input,      \* the entries opened so far, each the lines read from it
    pcMain,     \* main's position: "entries", "lines", "join", "exited"
    exitKind,   \* "running", "ok" (main returned Ok) or "panic"
    lines,      \* main's `lines` vector: ids <<entry, line>> into input
    joinIdx,    \* index into `handles` of the handle being joined
    batch,      \* per worker: its lines_to_process (ids into input)
    wpc,        \* per worker: "process", "lock", "write", "done", "panicked"
    pos,        \* per worker: lines of its batch handed to process_line
    result,     \* per worker: its local `result` String
    written,    \* per worker: code points of result already in the file
    holder,     \* the worker holding the Mutex guard, 0 when unlocked
    order,      \* the workers in the order they took the lock
    sink,       \* the content of sentences.txt
    \* ---- SpecPara: one extracted text run through the paragraph loop
    text,       \* the text of one msg (pieces appended so far)
    npieces,    \* number of pieces appended
    pstage,     \* "build" or "done"
    trace,      \* per paragraph: what the loop body decided
    outbuf,     \* what the loop pushed to `result`
    \* ---- SpecHtml: one fragment tree run through convert_html_to_text
    nodes,      \* the parsed fragment: nodes in document order
    open,       \* stack of open elements while the tree is built
    hstage,     \* "build" or "done"
    extracted   \* the string convert_html_to_text returned

varsPipe == <<input, pcMain, exitKind, lines, joinIdx, batch, wpc, pos,
              result, written, holder, order, sink>>
varsPara == <<text, npieces, pstage, trace, outbuf>>
varsHtml == <<nodes, open, hstage, extracted>>
vars == <<varsPipe, varsPara, varsHtml>>

(***************************************************************************)
(* Bounds of the model.                                                    *)
(***************************************************************************)
\* The batch size: the code dispatches at 1000 lines (line 168); the model
\* dispatches at BatchSize lines.
BatchSize == 2
\* Lines read from the archive, over all entries.
MaxTotalLines == 4
\* Entries in the archive.
MaxEntries == 2
\* Code points one write(2) call of write_all transfers.
WriteChunk == 6
\* Pieces a text is assembled from.
MaxPieces == 3
\* Nodes of a fragment tree (the root element not counted).
MaxNodes == 5

(***************************************************************************)
(* Generic sequence helpers.                                               *)
(***************************************************************************)
NL == <<10>>

RECURSIVE Flatten(_)
Flatten(ss) == IF ss = <<>> THEN <<>> ELSE Head(ss) \o Flatten(Tail(ss))

Range(s) == { s[i] : i \in 1..Len(s) }

Count(s, c) == Cardinality({ i \in 1..Len(s) : s[i] = c })

Pow2(n) == 2 ^ n

(***************************************************************************)
(* Lexical classifier (lines 16-60).                                       *)
(***************************************************************************)
\* \p{Unified_Ideograph}: the Unified_Ideograph ranges of the Unicode
\* character database.
CJK_REGEX_is_match(c) ==
    \/ c \in 13312..19903       \* U+3400..U+4DBF  Extension A
    \/ c \in 19968..40959       \* U+4E00..U+9FFF  URO
    \/ c \in {64014, 64015, 64017, 64019, 64020, 64031, 64033, 64035, 64036,
              64039, 64040, 64041}
    \/ c \in 131072..173791     \* U+20000..U+2A6DF Extension B
    \/ c \in 173824..191471     \* U+2A700..U+2EBEF Extensions C-F
    \/ c \in 196608..205743     \* U+30000..U+323AF Extensions G-H

SHARED_PUNCS == {64, 35, 36, 37, 94, 38, 42, 183, 8230, 8229, 8212, 65374}

ENGLISH_PUNCS ==
    {126, 96, 33, 40, 41, 45, 95, 123, 125, 91, 93, 124, 92, 58, 59, 34, 39,
     60, 62, 44, 46, 63, 47}

CHINESE_PUNCS ==
    {65281, 65306, 65307, 8220, 8221, 8216, 8217, 12304, 12305, 65288, 65289,
     12300, 12301, 65089, 65090, 12302, 12303, 12298, 12299, 65311, 65292,
     12290, 12289, 65295, 65291, 12296, 12297, 65087, 65088, 65339, 65341,
     8231}

PUNCS == (SHARED_PUNCS \cup ENGLISH_PUNCS) \cup CHINESE_PUNCS

is_punc(c) == c \in PUNCS

is_ascii_alphanumeric(c) == c \in 48..57 \/ c \in 65..90 \/ c \in 97..122

\* The mutant of the filter: nothing is dropped.
filter_irrelevant_chars_keep_all(txt) == txt

filter_irrelevant_chars(txt) ==
    LET keep(c) == CJK_REGEX_is_match(c) \/ is_punc(c) \/ is_ascii_alphanumeric(c)
    IN  SelectSeq(txt, keep)

\* count_matching_chars(para, &CJK_REGEX)
count_matching_chars(txt) ==
    Cardinality({ i \in 1..Len(txt) : CJK_REGEX_is_match(txt[i]) })

(***************************************************************************)
(* str primitives the code calls.                                          *)
(***************************************************************************)
\* char::len_utf8
len_utf8(c) == IF c < 128 THEN 1 ELSE IF c < 2048 THEN 2 ELSE IF c < 65536 THEN 3 ELSE 4

\* str::len: the length in bytes of the UTF-8 encoding.
RECURSIVE byte_len(_)
byte_len(s) == IF s = <<>> THEN 0 ELSE len_utf8(Head(s)) + byte_len(Tail(s))

\* str::contains(&str)
contains(s, sub) ==
    \E i \in 1..(Len(s) - Len(sub) + 1) : SubSeq(s, i, i + Len(sub) - 1) = sub

\* char::is_whitespace (the White_Space property)
is_whitespace(c) ==
    \/ c \in 9..13
    \/ c \in {32, 133, 160, 5760, 8232, 8233, 8239, 8287, 12288}
    \/ c \in 8192..8202

\* str::trim
trim(s) ==
    LET idx == { i \in 1..Len(s) : ~is_whitespace(s[i]) }
    IN  IF idx = {} THEN <<>>
        ELSE SubSeq(s, CHOOSE i \in idx : \A j \in idx : i <= j,
                       CHOOSE i \in idx : \A j \in idx : i >= j)

\* str::split("\n"), collected: k newlines give k + 1 segments.
RECURSIVE split_newline(_)
split_newline(s) ==
    LET idx == { i \in 1..Len(s) : s[i] = 10 }
    IN  IF idx = {} THEN <<s>>
        ELSE LET i == CHOOSE i \in idx : \A j \in idx : i <= j
             IN  <<SubSeq(s, 1, i - 1)>> \o split_newline(SubSeq(s, i + 1, Len(s)))

\* \d of the regex crate: a decimal digit (general category Nd); the ASCII,
\* Arabic-Indic, Devanagari and fullwidth digits of that category.
is_digit(c) ==
    c \in 48..57 \/ c \in 1632..1641 \/ c \in 2406..2415 \/ c \in 65296..65305

is_ascii_letter_or_space(c) == c \in 65..90 \/ c \in 97..122 \/ c = 32

(***************************************************************************)
(* Paragraph validator: is_valid_para (lines 62-101), one definition per   *)
(* rejection rule.                                                         *)
(***************************************************************************)
DeletedPlaceholder == <<27492, 22238, 35206, 24050, 34987, 21034, 38500>>

SharedFromLihkg ==
    <<20998, 20139, 33258, 32, 76, 73, 72, 75, 71, 32, 35342, 35542, 21312>>

HttpPrefix == <<104, 116, 116, 112, 58, 47, 47>>

HttpsPrefix == <<104, 116, 116, 112, 115, 58, 47, 47>>

rule_empty(para) == para = <<>>

rule_deleted(para) == para = DeletedPlaceholder

rule_shared(para) == contains(para, SharedFromLihkg)

\* The mutant of the length rule: the upper bound is off by one.
rule_length_off_by_one(para) == Len(para) < 5 \/ Len(para) > 21

rule_length(para) == Len(para) < 5 \/ Len(para) > 20

rule_url(para) == contains(para, HttpPrefix) \/ contains(para, HttpsPrefix)

\* ^[A-Za-z ]+$
rule_english(para) ==
    Len(para) >= 1 /\ \A i \in 1..Len(para) : is_ascii_letter_or_space(para[i])

\* ^\d{4}.\d{2}.\d{2}$ : `.` is any character but a line feed
rule_date(para) ==
    /\ Len(para) = 10
    /\ \A i \in {1, 2, 3, 4, 6, 7, 9, 10} : is_digit(para[i])
    /\ para[5] # 10 /\ para[8] # 10

\* ^\d{2}:\d{2}:\d{2}$
rule_time(para) ==
    /\ Len(para) = 8
    /\ \A i \in {1, 2, 4, 5, 7, 8} : is_digit(para[i])
    /\ para[3] = 58 /\ para[6] = 58

\* unique_chars.len() * 5 < para.len(): para.len() is the length in bytes
rule_repeated(para) == Cardinality(Range(para)) * 5 < byte_len(para)

\* The number of the rule that rejects para, 0 when none does.
reject_rule(para) ==
    IF rule_empty(para) THEN 1
    ELSE IF rule_deleted(para) THEN 2
    ELSE IF rule_shared(para) THEN 3
    ELSE IF rule_length(para) THEN 4
    ELSE IF rule_url(para) THEN 5
    ELSE IF rule_english(para) THEN 6
    ELSE IF rule_date(para) THEN 7
    ELSE IF rule_time(para) THEN 8
    ELSE IF rule_repeated(para) THEN 9
    ELSE 0

is_valid_para(para) == reject_rule(para) = 0

(***************************************************************************)
(* Script-ratio filter (lines 133-141).                                    *)
(***************************************************************************)
\* The significand of 0.8f32 (0x3F4CCCCD): 0.8f32 = F32_0_8_Mant * 2^-24.
F32_0_8_Mant == 13421773

\* n / 2^s rounded to the nearest integer, ties to even.
round_ties_even(n, s) ==
    LET d == Pow2(s)
        q == n \div d
        r == n % d
    IN  IF 2 * r > d \/ (2 * r = d /\ q % 2 = 1) THEN q + 1 ELSE q

\* The mutant of the threshold: the product is truncated, not rounded.
ratio_threshold_truncated(num_total) == (num_total * 8) \div 10

\* (num_total as f32 * 0.8).round() as usize.  The exact product is
\* n * 2^-24 with n = num_total * F32_0_8_Mant; the f32 product keeps 24
\* significant bits of it (round to nearest, ties to even); f32::round
\* rounds half away from zero.
ratio_threshold(num_total) ==
    IF num_total = 0 THEN 0
    ELSE LET n == num_total * F32_0_8_Mant
             s == CHOOSE k \in 0..5 : Pow2(23 + k) <= n /\ n < Pow2(24 + k)
             m == round_ties_even(n, s)     \* product = m * 2^(s - 24)
             d == Pow2(24 - s)
         IN  (2 * m + d) \div (2 * d)

keep_para(para) ==
    LET num_cjk == count_matching_chars(para)
        num_total == Len(para)
    IN  num_cjk >= 5 /\ num_cjk > ratio_threshold(num_total)

\* The body of `for para in paras` for one untrimmed segment: what it
\* pushes to result.
para_output(seg) ==
    LET para == trim(seg)
    IN  IF is_valid_para(para) /\ keep_para(para)
        THEN filter_irrelevant_chars(para) \o NL
        ELSE <<>>

\* Lines 129-142: text.split("\n") and the loop over the paragraphs.
text_output(txt) ==
    LET paras == split_newline(txt)
    IN  Flatten([i \in 1..Len(paras) |-> para_output(paras[i])])

(***************************************************************************)
(* Markup extractor: convert_html_to_text (lines 103-118).                 *)
(*                                                                         *)
(* A parsed fragment is the sequence of its nodes in document order, each  *)
(* [kind, parent, text]: kind is "text", "blockquote" or "div" (any other  *)
(* element), parent is the index of the parent node, 0 for the root        *)
(* element and -1 for a node detached from the tree.  Html::parse_fragment *)
(* (the html5ever parser) is outside the repository: the extractor is      *)
(* modelled from the parsed tree on.                                       *)
(***************************************************************************)
children(tree, p) == { i \in 1..Len(tree) : tree[i].parent = p }

\* The nodes below p in document order (ego_tree's descendants()).
RECURSIVE descendants(_, _)
descendants(tree, p) ==
    LET RECURSIVE walk(_)
        walk(cs) ==
            IF cs = {} THEN <<>>
            ELSE LET c == CHOOSE x \in cs : \A y \in cs : x <= y
                 IN  (<<c>> \o descendants(tree, c)) \o walk(cs \ {c})
    IN  walk(children(tree, p))

\* The mutant of the selection: only the blockquotes directly below the
\* root are selected.
select_blockquote_top_level(tree) ==
    SelectSeq(descendants(tree, 0),
              LAMBDA i : tree[i].kind = "blockquote" /\ tree[i].parent = 0)

\* document.select(&blockquote_selector).map(|x| x.id()).collect()
select_blockquote(tree) ==
    SelectSeq(descendants(tree, 0), LAMBDA i : tree[i].kind = "blockquote")

\* document.remove_from_parent(&id): the node is detached from its parent
\* and keeps its own children.
remove_from_parent(tree, id) == [tree EXCEPT ![id].parent = -1]

\* for id in node_ids { document.remove_from_parent(&id); }
RECURSIVE remove_all(_, _)
remove_all(tree, ids) ==
    IF ids = <<>> THEN tree
    ELSE remove_all(remove_from_parent(tree, Head(ids)), Tail(ids))

\* document.root_element().text().collect()
root_text(tree) ==
    LET ds == descendants(tree, 0)
    IN  Flatten([k \in 1..Len(ds) |->
                   IF tree[ds[k]].kind = "text" THEN tree[ds[k]].text ELSE <<>>])

convert_html_to_text(tree) ==
    root_text(remove_all(tree, select_blockquote(tree)))

(***************************************************************************)
(* SpecPara: a text is assembled from pieces and run through the loop.     *)
(***************************************************************************)
\* The pieces texts are assembled from, with the case each is there for.
Pieces ==
    { DeletedPlaceholder,                     \* rule 2
      SharedFromLihkg,                        \* rule 3
      HttpPrefix, HttpsPrefix,                \* rule 5
      <<25105, 20170, 26085, 21435, 21655, 34903, 24066, 36023, 39224, 33756>>,
      <<20322, 21707, 32893, 26202, 20808, 26371, 36820, 23627, 20225, 30611>>,
                                              \* twice ten distinct ideographs
      <<20320, 22909, 19990, 30028, 21834>>,  \* five distinct ideographs
      <<21704, 21704, 21704>>,                \* one ideograph three times
      <<33, 33, 33, 33, 33>>,                 \* "!!!!!"
      <<97>>,                                 \* "a"
      <<32>>,                                 \* a space
      <<128512>>,                             \* an emoji, outside the alphabet
      NL,                                     \* a paragraph break
      <<50, 48, 50, 52, 45, 48, 49, 45, 49, 53>>,     \* "2024-01-15"
      <<49, 50, 58, 51, 48, 58, 52, 53>> }            \* "12:30:45"

InitPara ==
    /\ text = <<>>
    /\ npieces = 0
    /\ pstage = "build"
    /\ trace = <<>>
    /\ outbuf = <<>>

AppendPiece(p) ==
    /\ pstage = "build"
    /\ npieces < MaxPieces
    /\ text' = text \o p
    /\ npieces' = npieces + 1
    /\ UNCHANGED <<pstage, trace, outbuf, varsPipe, varsHtml>>

\* Lines 129-142 applied to text; trace records, per paragraph, the trimmed
\* paragraph, the rule that rejected it (0: accepted), whether the
\* script-ratio condition held for an accepted one, and what was pushed.
ProcessText ==
    /\ pstage = "build"
    /\ pstage' = "done"
    /\ LET paras == split_newline(text)
       IN  trace' = [i \in 1..Len(paras) |->
                       LET para == trim(paras[i])
                       IN  [para |-> para,
                            rule |-> reject_rule(para),
                            kept |-> is_valid_para(para) /\ keep_para(para),
                            out  |-> para_output(paras[i])]]
    /\ outbuf' = text_output(text)
    /\ UNCHANGED <<text, npieces, varsPipe, varsHtml>>

NextPara ==
    \/ \E p \in Pieces : AppendPiece(p)
    \/ ProcessText

(***************************************************************************)
(* SpecHtml: a fragment tree is built node by node and extracted.          *)
(***************************************************************************)
InitHtml ==
    /\ nodes = <<>>
    /\ open = <<>>
    /\ hstage = "build"
    /\ extracted = <<>>

CurrentParent == IF open = <<>> THEN 0 ELSE open[Len(open)]

\* A text node; its text is one letter that names the node.
AddText ==
    /\ hstage = "build"
    /\ Len(nodes) < MaxNodes
    /\ nodes' = Append(nodes, [kind |-> "text", parent |-> CurrentParent,
                               text |-> <<65 + Len(nodes)>>])
    /\ UNCHANGED <<open, hstage, extracted, varsPipe, varsPara>>

OpenElement(k) ==
    /\ hstage = "build"
    /\ Len(nodes) < MaxNodes
    /\ nodes' = Append(nodes, [kind |-> k, parent |-> CurrentParent, text |-> <<>>])
    /\ open' = Append(open, Len(nodes) + 1)
    /\ UNCHANGED <<hstage, extracted, varsPipe, varsPara>>

CloseElement ==
    /\ hstage = "build"
    /\ open # <<>>
    /\ open' = SubSeq(open, 1, Len(open) - 1)
    /\ UNCHANGED <<nodes, hstage, extracted, varsPipe, varsPara>>

ExtractText ==
    /\ hstage = "build"
    /\ hstage' = "done"
    /\ extracted' = convert_html_to_text(nodes)
    /\ UNCHANGED <<nodes, open, varsPipe, varsPara>>

NextHtml ==
    \/ AddText
    \/ \E k \in {"blockquote", "div"} : OpenElement(k)
    \/ CloseElement
    \/ ExtractText

(***************************************************************************)
(* Record processor: process_line (lines 120-149).                         *)
(*                                                                         *)
(* A line is [nfields, json]: the number of its tab-separated fields and   *)
(* what serde_json makes of field 2: [valid |-> FALSE] when it is not      *)
(* JSON, else [valid, success, has_items, item_data]: success is the value *)
(* of obj["success"].as_i64() (-1 for None), has_items whether             *)
(* obj["response"]["item_data"] is an array, and item_data its items, each *)
(* [has_msg, msg] with msg a parsed fragment.                              *)
(***************************************************************************)
TextNode(t) == [kind |-> "text", parent |-> 0, text |-> t]

\* <p>這是一個測試訊息！</p><blockquote>隱藏內容</blockquote>
MsgTest ==
    << [kind |-> "div", parent |-> 0, text |-> <<>>],
       [kind |-> "text", parent |-> 1,
        text |-> <<36889, 26159, 19968, 20491, 28204, 35430, 35338, 24687, 65281>>],
       [kind |-> "blockquote", parent |-> 0, text |-> <<>>],
       [kind |-> "text", parent |-> 3, text |-> <<38577, 34255, 20839, 23481>>] >>

\* 你好世界啊<br>\n今日去咗街市 : two paragraphs in one text
MsgTwoParas ==
    << TextNode(<<20320, 22909, 19990, 30028, 21834>>),
       [kind |-> "div", parent |-> 0, text |-> <<>>],
       TextNode(<<10, 20170, 26085, 21435, 21655, 34903, 24066, 32>>) >>

\* 聽晚先會返屋企
MsgOnePara == << TextNode(<<32893, 26202, 20808, 26371, 36820, 23627, 20225>>) >>

Item(m) == [has_msg |-> TRUE, msg |-> m]

NoMsgItem == [has_msg |-> FALSE, msg |-> <<>>]

\* The lines an archive entry is made of.
LineKinds == {"test", "two", "nodata", "short", "badjson"}

ArchiveLine(k) ==
    CASE k = "test" ->
           [nfields |-> 3,
            json |-> [valid |-> TRUE, success |-> 1, has_items |-> TRUE,
                      item_data |-> <<Item(MsgTest)>>]]
      [] k = "two" ->
           [nfields |-> 4,
            json |-> [valid |-> TRUE, success |-> 1, has_items |-> TRUE,
                      item_data |-> <<Item(MsgTwoParas), NoMsgItem, Item(MsgOnePara)>>]]
      [] k = "nodata" ->
           [nfields |-> 3,
            json |-> [valid |-> TRUE, success |-> 0, has_items |-> FALSE,
                      item_data |-> <<>>]]
      [] k = "short" ->
           [nfields |-> 2, json |-> [valid |-> FALSE]]
      [] k = "badjson" ->
           [nfields |-> 3, json |-> [valid |-> FALSE]]

\* Lines 127-143: what one item pushes to result.
item_output(item) ==
    IF item.has_msg THEN text_output(convert_html_to_text(item.msg)) ELSE <<>>

\* The mutant of the item loop: the items are visited last to first.
items_output_reversed(item_data) ==
    Flatten([i \in 1..Len(item_data) |->
               item_output(item_data[Len(item_data) + 1 - i])])

\* for item in item_data { ... }
items_output(item_data) ==
    Flatten([i \in 1..Len(item_data) |-> item_output(item_data[i])])

\* process_line(line, &mut result): [ok, out], ok FALSE when the call
\* panics (nth(2).unwrap() on fewer than 3 fields) or returns Err (field 2
\* is not JSON), out what it pushed to result.
process_line(line) ==
    IF line.nfields < 3 THEN [ok |-> FALSE, out |-> <<>>]
    ELSE IF ~line.json.valid THEN [ok |-> FALSE, out |-> <<>>]
    ELSE IF line.json.success = 1 /\ line.json.has_items
         THEN [ok |-> TRUE, out |-> items_output(line.json.item_data)]
         ELSE [ok |-> TRUE, out |-> <<>>]

(***************************************************************************)
(* Archive pipeline: main (lines 151-198) and the closure each batch       *)
(* thread runs (lines 173-186).  The archive is readable, its lines are    *)
(* valid UTF-8 and writes to the output file succeed.                      *)
(***************************************************************************)
InitPipe ==
    /\ input = <<>>
    /\ pcMain = "entries"
    /\ exitKind = "running"
    /\ lines = <<>>
    /\ joinIdx = 1
    /\ batch = <<>>
    /\ wpc = <<>>
    /\ pos = <<>>
    /\ result = <<>>
    /\ written = <<>>
    /\ holder = 0
    /\ order = <<>>
    /\ sink = <<>>

Workers == 1..Len(batch)

TotalLines == Len(Flatten(input))

LineAt(id) == ArchiveLine(input[id[1]][id[2]])

\* for file in archive.entries()? : the next entry; `lines` is a new Vec.
MainNextEntry ==
    /\ pcMain = "entries"
    /\ Len(input) < MaxEntries
    /\ input' = Append(input, <<>>)
    /\ lines' = <<>>
    /\ pcMain' = "lines"
    /\ UNCHANGED <<exitKind, joinIdx, batch, wpc, pos, result, written, holder,
                   order, sink, varsPara, varsHtml>>

\* The entries are exhausted: on to the join loop.
MainEndOfArchive ==
    /\ pcMain = "entries"
    /\ pcMain' = "join"
    /\ joinIdx' = 1
    /\ UNCHANGED <<input, exitKind, lines, batch, wpc, pos, result, written,
                   holder, order, sink, varsPara, varsHtml>>

\* One iteration of `for line in reader.lines()`: the line is pushed, and
\* at BatchSize lines the vector is moved into a new thread.
MainReadLine(k) ==
    /\ pcMain = "lines"
    /\ TotalLines < MaxTotalLines
    /\ LET e == Len(input)
           pushed == Append(lines, <<e, Len(input[e]) + 1>>)
       IN  /\ input' = [input EXCEPT ![e] = Append(@, k)]
           /\ IF Len(pushed) >= BatchSize
              THEN /\ lines' = <<>>
                   /\ batch' = Append(batch, pushed)
                   /\ wpc' = Append(wpc, "process")
                   /\ pos' = Append(pos, 0)
                   /\ result' = Append(result, <<>>)
                   /\ written' = Append(written, 0)
              ELSE /\ lines' = pushed
                   /\ UNCHANGED <<batch, wpc, pos, result, written>>
    /\ UNCHANGED <<pcMain, exitKind, joinIdx, holder, order, sink,
                   varsPara, varsHtml>>

\* The entry's lines are exhausted: `lines` goes out of scope with whatever
\* it holds.
MainEndOfEntry ==
    /\ pcMain = "lines"
    /\ pcMain' = "entries"
    /\ lines' = <<>>
    /\ UNCHANGED <<input, exitKind, joinIdx, batch, wpc, pos, result, written,
                   holder, order, sink, varsPara, varsHtml>>

\* handle.join().expect("Thread panicked")
MainJoin ==
    /\ pcMain = "join"
    /\ joinIdx <= Len(batch)
    /\ wpc[joinIdx] \in {"done", "panicked"}
    /\ IF wpc[joinIdx] = "done"
       THEN /\ joinIdx' = joinIdx + 1
            /\ UNCHANGED <<pcMain, exitKind>>
       ELSE /\ pcMain' = "exited"
            /\ exitKind' = "panic"
            /\ UNCHANGED joinIdx
    /\ UNCHANGED <<input, lines, batch, wpc, pos, result, written, holder,
                   order, sink, varsPara, varsHtml>>

\* Ok(())
MainReturn ==
    /\ pcMain = "join"
    /\ joinIdx > Len(batch)
    /\ pcMain' = "exited"
    /\ exitKind' = "ok"
    /\ UNCHANGED <<input, lines, joinIdx, batch, wpc, pos, result, written,
                   holder, order, sink, varsPara, varsHtml>>

\* process_line(&line, &mut result).unwrap() for the next line of the batch
WorkerProcessLine(w) ==
    /\ exitKind = "running"
    /\ wpc[w] = "process"
    /\ pos[w] < Len(batch[w])
    /\ LET r == process_line(LineAt(batch[w][pos[w] + 1]))
       IN  /\ pos' = [pos EXCEPT ![w] = @ + 1]
           /\ IF r.ok
              THEN /\ result' = [result EXCEPT ![w] = @ \o r.out]
                   /\ UNCHANGED wpc
              ELSE /\ wpc' = [wpc EXCEPT ![w] = "panicked"]
                   /\ UNCHANGED result
    /\ UNCHANGED <<input, pcMain, exitKind, lines, joinIdx, batch, written,
                   holder, order, sink, varsPara, varsHtml>>

\* The mutant of the lock: it never blocks.
mutex_unlocked_always == TRUE

\* output_file.lock() returns when no other thread holds the guard.
mutex_unlocked == holder = 0

WorkerLock(w) ==
    /\ exitKind = "running"
    /\ wpc[w] = "process"
    /\ pos[w] = Len(batch[w])
    /\ mutex_unlocked
    /\ holder' = w
    /\ order' = Append(order, w)
    /\ wpc' = [wpc EXCEPT ![w] = "write"]
    /\ UNCHANGED <<input, pcMain, exitKind, lines, joinIdx, batch, pos, result,
                   written, sink, varsPara, varsHtml>>

\* One write call of write_all(result.as_bytes()): the next WriteChunk code
\* points of result, or what is left of it, are appended to the file.
WorkerWrite(w) ==
    /\ exitKind = "running"
    /\ wpc[w] = "write"
    /\ written[w] < Len(result[w])
    /\ LET n == IF Len(result[w]) - written[w] < WriteChunk
                THEN Len(result[w]) - written[w] ELSE WriteChunk
       IN  /\ sink' = sink \o SubSeq(result[w], written[w] + 1, written[w] + n)
           /\ written' = [written EXCEPT ![w] = @ + n]
    /\ UNCHANGED <<input, pcMain, exitKind, lines, joinIdx, batch, wpc, pos,
                   result, holder, order, varsPara, varsHtml>>

\* write_all has returned: the guard is dropped and the thread ends.
WorkerUnlock(w) ==
    /\ exitKind = "running"
    /\ wpc[w] = "write"
    /\ written[w] = Len(result[w])
    /\ holder' = IF holder = w THEN 0 ELSE holder
    /\ wpc' = [wpc EXCEPT ![w] = "done"]
    /\ UNCHANGED <<input, pcMain, exitKind, lines, joinIdx, batch, pos, result,
                   written, order, sink, varsPara, varsHtml>>

Next ==
    \/ MainNextEntry
    \/ MainEndOfArchive
    \/ \E k \in LineKinds : MainReadLine(k)
    \/ MainEndOfEntry
    \/ MainJoin
    \/ MainReturn
    \/ \E w \in Workers : WorkerProcessLine(w)
    \/ \E w \in Workers : WorkerLock(w)
    \/ \E w \in Workers : WorkerWrite(w)
    \/ \E w \in Workers : WorkerUnlock(w)

(***************************************************************************)
(* The specifications.                                                     *)
(***************************************************************************)
Init == InitPipe /\ InitPara /\ InitHtml

Spec == Init /\ [][Next]_vars

SpecPara == Init /\ [][NextPara]_vars

SpecHtml == Init /\ [][NextHtml]_vars

(***************************************************************************)
(* Properties of the paragraph validator and the script-ratio filter,      *)
(* checked under SpecPara.                                                 *)
(***************************************************************************)
Paragraphs == 1..Len(trace)

DistinctChars(para) == Cardinality(Range(para))

\* C5: the repetition rule (rule 9) rejects a paragraph that passed rules
\* 1-8 if and only if U * 5 < L, with U the number of distinct characters
\* and L the number of characters (Unicode scalars, not bytes).
C5_RepetitionRuleCountsChars ==
    \A i \in Paragraphs :
        trace[i].rule \in {0, 9} =>
            (trace[i].rule = 9 <=>
                DistinctChars(trace[i].para) * 5 < Len(trace[i].para))

\* C6: every paragraph the validator accepts has between 5 and 20
\* characters, contains neither "http://" nor "https://" and is not the
\* deletion placeholder.
C6_AcceptedParagraphBounds ==
    \A i \in Paragraphs :
        trace[i].rule = 0 =>
            /\ 5 <= Len(trace[i].para) /\ Len(trace[i].para) <= 20
            /\ ~contains(trace[i].para, HttpPrefix)
            /\ ~contains(trace[i].para, HttpsPrefix)
            /\ trace[i].para # DeletedPlaceholder

\* A text with an accepted paragraph of exactly 20 characters.
C6_Witness ==
    \E i \in Paragraphs : trace[i].rule = 0 /\ Len(trace[i].para) = 20

\* total * 0.8 rounded half away from zero, in exact arithmetic:
\* floor(8 * total / 10 + 1 / 2).
RoundHalfAway08(total) == (8 * total + 5) \div 10

\* C7: an accepted paragraph is kept if and only if cjk_count >= 5 and
\* cjk_count > round(total * 0.8); a kept paragraph contributes exactly one
\* output sentence and any other paragraph contributes nothing.
C7_ScriptRatioKeep ==
    /\ \A i \in Paragraphs :
          LET para == trace[i].para
              cjk == Cardinality({ j \in 1..Len(para) : CJK_REGEX_is_match(para[j]) })
          IN  /\ trace[i].rule = 0 =>
                    (trace[i].kept <=>
                        cjk >= 5 /\ cjk > RoundHalfAway08(Len(para)))
              /\ trace[i].kept =>
                    /\ Count(trace[i].out, 10) = 1
                    /\ trace[i].out[Len(trace[i].out)] = 10
              /\ ~trace[i].kept => trace[i].out = <<>>
    /\ Count(outbuf, 10) = Cardinality({ i \in Paragraphs : trace[i].kept })
    /\ outbuf = Flatten([i \in Paragraphs |-> trace[i].out])

\* An accepted paragraph with at least 5 ideographs that the ratio alone
\* turns down.
C7_Witness ==
    \E i \in Paragraphs :
        /\ trace[i].rule = 0
        /\ ~trace[i].kept
        /\ count_matching_chars(trace[i].para) >= 5

AllowedChar(c) ==
    CJK_REGEX_is_match(c) \/ c \in PUNCS \/ c \in 48..57 \/ c \in 65..90 \/ c \in 97..122

\* C10: every sentence pushed to the output has between 5 and 20
\* characters, at least 5 CJK characters, no line feed, and only CJK
\* characters, punctuation of the union and ASCII alphanumerics; no empty
\* line is written.
C10_OutputSentencesWellFormed ==
    LET sents == split_newline(outbuf)
    IN  /\ sents[Len(sents)] = <<>>
        /\ \A k \in 1..(Len(sents) - 1) :
              /\ 5 <= Len(sents[k]) /\ Len(sents[k]) <= 20
              /\ Cardinality({ j \in 1..Len(sents[k]) :
                                 CJK_REGEX_is_match(sents[k][j]) }) >= 5
              /\ \A j \in 1..Len(sents[k]) : AllowedChar(sents[k][j])
        /\ \A i \in Paragraphs : 10 \notin Range(trace[i].para)

\* A kept paragraph from which the character filter dropped something.
C10_Witness ==
    \E i \in Paragraphs :
        /\ trace[i].kept
        /\ Len(trace[i].out) < Len(trace[i].para) + 1
        /\ outbuf # <<>>

(***************************************************************************)
(* Properties of the markup extractor, checked under SpecHtml.             *)
(***************************************************************************)
\* Node i is a block-quote or lies below one, at any depth.
RECURSIVE InBlockquote(_)
InBlockquote(i) ==
    /\ i # 0
    /\ (nodes[i].kind = "blockquote" \/ InBlockquote(nodes[i].parent))

\* C8: the extractor returns the text nodes outside every block-quote,
\* concatenated in document order; text inside a block-quote, at any
\* nesting depth, never appears in the returned string.
C8_BlockquoteTextRemoved ==
    hstage = "done" =>
        /\ extracted =
              Flatten([i \in 1..Len(nodes) |->
                         IF nodes[i].kind = "text" /\ ~InBlockquote(i)
                         THEN nodes[i].text ELSE <<>>])
        /\ \A i \in 1..Len(nodes) :
              nodes[i].kind = "text" /\ InBlockquote(i) =>
                  \A j \in 1..Len(nodes[i].text) :
                      nodes[i].text[j] \notin Range(extracted)

\* A fragment with text in a block-quote nested in an element nested in a
\* block-quote, and text outside, has been extracted.
C8_Witness ==
    /\ hstage = "done"
    /\ extracted # <<>>
    /\ \E i \in 1..Len(nodes) :
          /\ nodes[i].kind = "text"
          /\ nodes[i].parent # 0
          /\ nodes[nodes[i].parent].kind = "blockquote"
          /\ nodes[nodes[i].parent].parent # 0
          /\ InBlockquote(nodes[nodes[i].parent].parent)

(***************************************************************************)
(* Properties of the archive pipeline, checked under Spec.                 *)
(***************************************************************************)
\* The sentences of each archive line in the order they are discovered.
Discovered(k) ==
    CASE k = "test" ->
           << <<36889, 26159, 19968, 20491, 28204, 35430, 35338, 24687, 65281>> >>
      [] k = "two" ->
           << <<20320, 22909, 19990, 30028, 21834>>,
              <<20170, 26085, 21435, 21655, 34903, 24066>>,
              <<32893, 26202, 20808, 26371, 36820, 23627, 20225>> >>
      [] OTHER -> <<>>

\* The sentences of a record, each followed by one line terminator.
RecordOutput(k) ==
    Flatten([j \in 1..Len(Discovered(k)) |-> Discovered(k)[j] \o NL])

KindAt(id) == input[id[1]][id[2]]

\* The ids of the lines read so far.
LinesRead ==
    { id \in (1..MaxEntries) \X (1..MaxTotalLines) :
        id[1] <= Len(input) /\ id[2] <= Len(input[id[1]]) }

\* How many times line id has been handed to process_line.
HandedCount(id) ==
    Cardinality({ wj \in Workers \X (1..BatchSize) :
                    wj[2] <= pos[wj[1]] /\ batch[wj[1]][wj[2]] = id })

\* C1: when the run ends, every line read has been handed to process_line
\* exactly once, and the sink holds exactly one line per valid sentence of
\* the archive, also for entries whose line count is not a multiple of the
\* batch size.
C1_EveryLineProcessedOnce ==
    exitKind = "ok" =>
        /\ \A id \in LinesRead : HandedCount(id) = 1
        /\ Count(sink, 10) =
              Len(Flatten([e \in 1..Len(input) |->
                    Flatten([k \in 1..Len(input[e]) |-> Discovered(input[e][k])])]))

\* The part of its result a worker has written so far.
WrittenPart(w) == SubSeq(result[w], 1, written[w])

C3_ExitAfterAllJoined ==
    exitKind # "running" => \A w \in Workers : wpc[w] \in {"done", "panicked"}

\* C4: a malformed line is isolated: when the run ends it has completed
\* normally and the sentences of every other dispatched line are in the sink.
C4_RecordErrorIsolated ==
    pcMain = "exited" =>
        /\ exitKind = "ok"
        /\ \A w \in Workers : \A j \in 1..Len(batch[w]) :
              contains(sink, RecordOutput(KindAt(batch[w][j])))

\* Where the chunk of the i-th worker to take the lock starts in the sink.
RECURSIVE ChunkStart(_)
ChunkStart(i) == IF i = 1 THEN 1 ELSE ChunkStart(i - 1) + written[order[i - 1]]

\* What the records of worker w's batch are to contribute, record by record.
BatchOutput(w) ==
    Flatten([j \in 1..Len(batch[w]) |-> RecordOutput(KindAt(batch[w][j]))])

\* C9: for every interleaving, what a worker has put in the sink is, record
\* by record of its batch, the record's sentences in the order they were
\* discovered (item order, then paragraph order), each followed by exactly
\* one line terminator: all of it once the worker is done, and a prefix of
\* it while it writes.
C9_RecordOrderPreserved ==
    \A i \in 1..Len(order) :
        LET w == order[i]
        IN  /\ SubSeq(sink, ChunkStart(i), ChunkStart(i) + written[w] - 1) =
                  SubSeq(BatchOutput(w), 1, written[w])
            /\ wpc[w] = "done" => written[w] = Len(BatchOutput(w))

\* The second batch was written before the first, and a record of three
\* sentences is in the sink.
C9_Witness ==
    /\ order = <<2, 1>>
    /\ wpc = <<"done", "done">>
    /\ \E j \in 1..Len(batch[1]) : KindAt(batch[1][j]) = "two"
    /\ \E j \in 1..Len(batch[2]) : KindAt(batch[2][j]) = "test"

=============================================================================
